---- MODULE Spec2Model ----
(***************************************************************************)
(* Model of the autopy `bitmap` Python binding (src/src/bitmap.rs).        *)
(*                                                                         *)
(* The binding wraps autopilot::bitmap::Bitmap.  The operators named after *)
(* the methods of `impl Bitmap` (save, get_color, find_color, ...) are     *)
(* translated from the binding.  The operations of the wrapped engine that *)
(* the binding calls (bounds, is_point_visible, find_color, cropped, ...)  *)
(* live in the autopilot crate; they follow the design document of the     *)
(* engine and carry the prefix `bitmap_` or the name of the geometry       *)
(* method.                                                                 *)
(*                                                                         *)
(* Encodings.  Option<T>: None is <<>>, Some(v) is <<v>>.  A Python point  *)
(* argument is <<x, y>>, a Python rect argument <<<<x, y>>, <<w, h>>>>.    *)
(* A tolerance is an integer number of hundredths (5 stands for 0.05).     *)
(* A string that the code takes apart (a path, an extension) is a sequence *)
(* of one-character strings.  PyResult is [kind |-> "Ok", val |-> v] or    *)
(* [kind |-> "Err", exc |-> e].                                            *)
(***************************************************************************)
EXTENDS Integers, Sequences, FiniteSets, TLC

VARIABLES bitmap, needle, fs, args, last

vars == <<bitmap, needle, fs, args, last>>

(***************************************************************************)
(* Bounds of the model.                                                    *)
(***************************************************************************)
MaxW == 2

MaxH == 2

(***************************************************************************)
(* Option and PyResult.                                                    *)
(***************************************************************************)
None == <<>>

Some(v) == <<v>>

Ok(v) == [kind |-> "Ok", val |-> v]

Err(e) == [kind |-> "Err", exc |-> e]

(***************************************************************************)
(* Geometry of the wrapped engine (autopilot::geometry).                   *)
(***************************************************************************)
Point_new(x, y) == [x |-> x, y |-> y]

Size_new(w, h) == [width |-> w, height |-> h]

Rect_new(origin, size) == [origin |-> origin, size |-> size]

Max(a, b) == IF a >= b THEN a ELSE b

Min(a, b) == IF a <= b THEN a ELSE b

max_x(r) == r.origin.x + r.size.width

max_y(r) == r.origin.y + r.size.height

\* Half-open containment: the right and bottom edges are excluded.
is_point_visible(r, p) ==
    /\ r.origin.x <= p.x
    /\ p.x < max_x(r)
    /\ r.origin.y <= p.y
    /\ p.y < max_y(r)

\* A rect is visible in r iff it has a non-negative size and lies inside r.
is_rect_visible(r, q) ==
    /\ q.size.width >= 0
    /\ q.size.height >= 0
    /\ r.origin.x <= q.origin.x
    /\ r.origin.y <= q.origin.y
    /\ max_x(q) <= max_x(r)
    /\ max_y(q) <= max_y(r)

\* The intersection of two rects; zero-size when they do not overlap.
intersection(r, q) ==
    LET x0 == Max(r.origin.x, q.origin.x)
        y0 == Max(r.origin.y, q.origin.y)
        x1 == Min(max_x(r), max_x(q))
        y1 == Min(max_y(r), max_y(q))
    IN  IF x1 <= x0 \/ y1 <= y0
        THEN Rect_new(Point_new(x0, y0), Size_new(0, 0))
        ELSE Rect_new(Point_new(x0, y0), Size_new(x1 - x0, y1 - y0))

(***************************************************************************)
(* Pixels and pixel buffers.  A pixel is <<r, g, b, a>>; a buffer is       *)
(* [w, h, px] with px a function from <<x, y>> to pixels.                  *)
(***************************************************************************)
Rgba(r, g, b, a) == <<r, g, b, a>>

channels4(p) == <<p[1], p[2], p[3], p[4]>>

Palette == << Rgba(0, 0, 0, 255), Rgba(255, 0, 0, 255), Rgba(250, 0, 0, 128) >>

\* The buffer of size w x h whose pixel at (x, y) is palette entry a*x + b*y + c.
MakeBitmap(w, h, a, b, c) ==
    [w |-> w, h |-> h,
     px |-> [p \in (0 .. w - 1) \X (0 .. h - 1) |->
                Palette[((a * p[1] + b * p[2] + c) % Len(Palette)) + 1]]]

Bitmaps ==
    { MakeBitmap(w, h, a, b, c) :
        w \in 1 .. MaxW, h \in 1 .. MaxH, a \in 0 .. 1, b \in 0 .. 1, c \in 0 .. 1 }

bounds(bmp) == Rect_new(Point_new(0, 0), Size_new(bmp.w, bmp.h))

get_pixel(bmp, p) == bmp.px[<<p.x, p.y>>]

(***************************************************************************)
(* ColorMatcher of the wrapped engine.  A tolerance t (in hundredths)      *)
(* allows a deviation of d = round(t * 255) on each channel; alpha is      *)
(* ignored.  An absent tolerance is 0.                                     *)
(***************************************************************************)
\* n / den rounded to the nearest integer, halves away from zero.
Round(n, den) ==
    IF n >= 0 THEN (2 * n + den) \div (2 * den)
              ELSE 0 - ((2 * (0 - n) + den) \div (2 * den))

Abs(n) == IF n >= 0 THEN n ELSE 0 - n

unwrap_or(o, dflt) == IF o = None THEN dflt ELSE o[1]

max_delta(tolerance) == Round(unwrap_or(tolerance, 0) * 255, 100)

colors_match(a, b, tolerance) ==
    \A i \in 1 .. 3 : Abs(a[i] - b[i]) <= max_delta(tolerance)

(***************************************************************************)
(* RegionScanner of the wrapped engine: the effective region and its       *)
(* positions in row-major order from the start point.                      *)
(***************************************************************************)
effective_region(bmp, rect) == intersection(unwrap_or(rect, bounds(bmp)), bounds(bmp))

region_points(region) ==
    [i \in 1 .. (region.size.width * region.size.height) |->
        Point_new(region.origin.x + ((i - 1) % region.size.width),
                  region.origin.y + ((i - 1) \div region.size.width))]

\* p is at or after s in scan order.
at_or_after(p, s) == p.y > s.y \/ (p.y = s.y /\ p.x >= s.x)

positions(bmp, rect, start_point) ==
    LET region == effective_region(bmp, rect)
        start  == unwrap_or(start_point, region.origin)
    IN  SelectSeq(region_points(region), LAMBDA p : at_or_after(p, start))

(***************************************************************************)
(* ColorSearch of the wrapped engine (autopilot::bitmap::Bitmap).          *)
(***************************************************************************)
RECURSIVE first_from(_, _, _)
\* The first element of seq at index >= i whose flag in hit is set, or None.
first_from(seq, hit, i) ==
    IF i > Len(seq) THEN None
    ELSE IF hit[i] THEN Some(seq[i])
    ELSE first_from(seq, hit, i + 1)

RECURSIVE count_from(_, _)
\* The number of flags of hit that are set at index >= i.
count_from(hit, i) ==
    IF i > Len(hit) THEN 0
    ELSE (IF hit[i] THEN 1 ELSE 0) + count_from(hit, i + 1)

\* For each scanned position, whether its pixel matches color.
color_hits(bmp, color, tolerance, scan) ==
    [i \in 1 .. Len(scan) |-> colors_match(get_pixel(bmp, scan[i]), color, tolerance)]

bitmap_find_color(bmp, color, tolerance, rect, start_point) ==
    LET scan == positions(bmp, rect, start_point)
    IN  first_from(scan, color_hits(bmp, color, tolerance, scan), 1)

bitmap_find_every_color(bmp, color, tolerance, rect, start_point) ==
    SelectSeq(positions(bmp, rect, start_point),
              LAMBDA p : colors_match(get_pixel(bmp, p), color, tolerance))

bitmap_count_of_color(bmp, color, tolerance, rect, start_point) ==
    LET scan == positions(bmp, rect, start_point)
    IN  count_from(color_hits(bmp, color, tolerance, scan), 1)

(***************************************************************************)
(* TemplateSearch of the wrapped engine.  A candidate is a scanned         *)
(* position at which the whole needle lies inside the haystack bounds; a   *)
(* needle larger than the effective region has no candidates.              *)
(***************************************************************************)
needle_oversized(bmp, ndl, rect) ==
    LET region == effective_region(bmp, rect)
    IN  ndl.w > region.size.width \/ ndl.h > region.size.height

needle_fits(bmp, ndl, p) == p.x + ndl.w <= bmp.w /\ p.y + ndl.h <= bmp.h

needle_matches(bmp, ndl, tolerance, p) ==
    \A d \in DOMAIN ndl.px :
        colors_match(bmp.px[<<p.x + d[1], p.y + d[2]>>], ndl.px[d], tolerance)

\* For each scanned position, whether the needle matches there.
bitmap_hits(bmp, ndl, tolerance, rect, scan) ==
    [i \in 1 .. Len(scan) |->
        /\ ~needle_oversized(bmp, ndl, rect)
        /\ needle_fits(bmp, ndl, scan[i])
        /\ needle_matches(bmp, ndl, tolerance, scan[i])]

bitmap_find_bitmap(bmp, ndl, tolerance, rect, start_point) ==
    LET scan == positions(bmp, rect, start_point)
    IN  first_from(scan, bitmap_hits(bmp, ndl, tolerance, rect, scan), 1)

bitmap_find_every_bitmap(bmp, ndl, tolerance, rect, start_point) ==
    LET scan == positions(bmp, rect, start_point)
        hit  == bitmap_hits(bmp, ndl, tolerance, rect, scan)
        idx  == SelectSeq([i \in 1 .. Len(scan) |-> i], LAMBDA i : hit[i])
    IN  [j \in 1 .. Len(idx) |-> scan[idx[j]]]

bitmap_count_of_bitmap(bmp, ndl, tolerance, rect, start_point) ==
    LET scan == positions(bmp, rect, start_point)
    IN  count_from(bitmap_hits(bmp, ndl, tolerance, rect, scan), 1)

\* The scan split into the row band above row k and the band from row k on,
\* each band searched on its own; the bands are consulted in scan order.
bitmap_find_bitmap_banded(bmp, ndl, tolerance, rect, start_point, k) ==
    LET scan  == positions(bmp, rect, start_point)
        upper == SelectSeq(scan, LAMBDA p : p.y < k)
        lower == SelectSeq(scan, LAMBDA p : p.y >= k)
        u     == first_from(upper, bitmap_hits(bmp, ndl, tolerance, rect, upper), 1)
        l     == first_from(lower, bitmap_hits(bmp, ndl, tolerance, rect, lower), 1)
    IN  IF u # None THEN u ELSE l

(***************************************************************************)
(* The binding: conversions of the Python arguments (bitmap.rs).           *)
(***************************************************************************)
\* Rect::new(Point::new((r.0).0, (r.0).1), Size::new((r.1).0, (r.1).1))
ToRect(r) == Rect_new(Point_new(r[1][1], r[1][2]), Size_new(r[2][1], r[2][2]))

\* Point::new(p.0, p.1)
ToPoint(p) == Point_new(p[1], p[2])

\* rect.map(|r| Rect::new(...))
MapRect(rect) == IF rect = None THEN None ELSE Some(ToRect(rect[1]))

\* start_point.map(|p| Point::new(p.0, p.1))
MapPoint(start_point) == IF start_point = None THEN None ELSE Some(ToPoint(start_point[1]))

\* Rgba([color.1, color.0, color.2, 255])
ToRgba_swapped(color) == Rgba(color[2], color[1], color[3], 255)

\* Rgba([color.0, color.1, color.2, 255])
ToRgba(color) == Rgba(color[1], color[2], color[3], 255)

\* (point.x, point.y)
FromPoint(p) == <<p.x, p.y>>

(***************************************************************************)
(* The binding: color search.                                              *)
(***************************************************************************)
\* find_color returning (point.y, point.x).
find_color_swapped(self, color, tolerance, rect, start_point) ==
    LET found == bitmap_find_color(self, ToRgba(color), tolerance,
                                   MapRect(rect), MapPoint(start_point))
    IN  IF found # None THEN Ok(Some(<<found[1].y, found[1].x>>)) ELSE Ok(None)

find_color(self, color, tolerance, rect, start_point) ==
    LET found == bitmap_find_color(self, ToRgba(color), tolerance,
                                   MapRect(rect), MapPoint(start_point))
    IN  IF found # None THEN Ok(Some(FromPoint(found[1]))) ELSE Ok(None)

\* find_every_color that rejects a rect not contained in the bounds, as cropped does.
find_every_color_strict(self, color, tolerance, rect, start_point) ==
    IF rect # None /\ ~is_rect_visible(bounds(self), ToRect(rect[1]))
    THEN Err("ValueError")
    ELSE LET points == bitmap_find_every_color(self, ToRgba(color), tolerance,
                                               MapRect(rect), MapPoint(start_point))
         IN  Ok([i \in 1 .. Len(points) |-> FromPoint(points[i])])

find_every_color(self, color, tolerance, rect, start_point) ==
    LET points == bitmap_find_every_color(self, ToRgba(color), tolerance,
                                          MapRect(rect), MapPoint(start_point))
    IN  Ok([i \in 1 .. Len(points) |-> FromPoint(points[i])])

\* count_of_color that does not forward start_point.
count_of_color_no_start(self, color, tolerance, rect, start_point) ==
    Ok(bitmap_count_of_color(self, ToRgba(color), tolerance, MapRect(rect), None))

count_of_color(self, color, tolerance, rect, start_point) ==
    Ok(bitmap_count_of_color(self, ToRgba(color), tolerance,
                             MapRect(rect), MapPoint(start_point)))

(***************************************************************************)
(* The binding: template search.                                           *)
(***************************************************************************)
\* find_bitmap that does not forward rect.
find_bitmap_no_rect(self, ndl, tolerance, rect, start_point) ==
    LET found == bitmap_find_bitmap(self, ndl, tolerance, None, MapPoint(start_point))
    IN  IF found # None THEN Ok(Some(FromPoint(found[1]))) ELSE Ok(None)

find_bitmap(self, ndl, tolerance, rect, start_point) ==
    LET found == bitmap_find_bitmap(self, ndl, tolerance,
                                    MapRect(rect), MapPoint(start_point))
    IN  IF found # None THEN Ok(Some(FromPoint(found[1]))) ELSE Ok(None)

\* find_every_bitmap that rejects a tolerance outside [0, 1].
find_every_bitmap_validating(self, ndl, tolerance, rect, start_point) ==
    IF tolerance # None /\ (tolerance[1] < 0 \/ tolerance[1] > 100)
    THEN Err("ValueError")
    ELSE LET points == bitmap_find_every_bitmap(self, ndl, tolerance,
                                                MapRect(rect), MapPoint(start_point))
         IN  Ok([i \in 1 .. Len(points) |-> FromPoint(points[i])])

find_every_bitmap(self, ndl, tolerance, rect, start_point) ==
    LET points == bitmap_find_every_bitmap(self, ndl, tolerance,
                                           MapRect(rect), MapPoint(start_point))
    IN  Ok([i \in 1 .. Len(points) |-> FromPoint(points[i])])

\* count_of_bitmap that does not forward tolerance.
count_of_bitmap_no_tolerance(self, ndl, tolerance, rect, start_point) ==
    Ok(bitmap_count_of_bitmap(self, ndl, None, MapRect(rect), MapPoint(start_point)))

count_of_bitmap(self, ndl, tolerance, rect, start_point) ==
    Ok(bitmap_count_of_bitmap(self, ndl, tolerance,
                              MapRect(rect), MapPoint(start_point)))

(***************************************************************************)
(* CropExtractor of the wrapped engine: a copy of the pixels inside rect,  *)
(* or an error when rect is not contained in the bounds.  The bitmap       *)
(* itself (taken as &mut self) is returned unchanged.                      *)
(***************************************************************************)
bitmap_cropped(bmp, rect) ==
    IF ~is_rect_visible(bounds(bmp), rect)
    THEN [res |-> Err("OutOfBounds"), self |-> bmp]
    ELSE [res |-> Ok([w |-> rect.size.width, h |-> rect.size.height,
                      px |-> [d \in (0 .. rect.size.width - 1) \X (0 .. rect.size.height - 1) |->
                                bmp.px[<<rect.origin.x + d[1], rect.origin.y + d[2]>>]]]),
          self |-> bmp]

(***************************************************************************)
(* The binding: bounds queries, pixel access and cropping.                 *)
(***************************************************************************)
point_in_bounds(self, x, y) == Ok(is_point_visible(bounds(self), Point_new(x, y)))

rect_in_bounds(self, rect) == Ok(is_rect_visible(bounds(self), ToRect(rect)))

\* get_color building Point::new(y, x).
get_color_swapped(self, x, y) ==
    LET point == Point_new(y, x)
    IN  IF ~is_point_visible(bounds(self), point)
        THEN Err("ValueError")
        ELSE LET c == channels4(get_pixel(self, point))
             IN  Ok(<<c[1], c[2], c[3]>>)

get_color(self, x, y) ==
    LET point == Point_new(x, y)
    IN  IF ~is_point_visible(bounds(self), point)
        THEN Err("ValueError")
        ELSE LET c == channels4(get_pixel(self, point))
             IN  Ok(<<c[1], c[2], c[3]>>)

\* FromImageError::from: an image error of the engine becomes a ValueError.
FromImageError(e) == "ValueError"

\* cropped building Size::new((rect.1).1, (rect.1).0).
cropped_swapped(self, rect) ==
    LET c == bitmap_cropped(self, Rect_new(Point_new(rect[1][1], rect[1][2]),
                                           Size_new(rect[2][2], rect[2][1])))
    IN  IF c.res.kind = "Err"
        THEN [res |-> Err(FromImageError(c.res.exc)), self |-> c.self]
        ELSE [res |-> Ok(c.res.val), self |-> c.self]

\* The result is a new Bitmap object wrapping the crop.
cropped(self, rect) ==
    LET c == bitmap_cropped(self, ToRect(rect))
    IN  IF c.res.kind = "Err"
        THEN [res |-> Err(FromImageError(c.res.exc)), self |-> c.self]
        ELSE [res |-> Ok(c.res.val), self |-> c.self]

(***************************************************************************)
(* The binding: save.  The files on disk are a set of <<path, content>>    *)
(* pairs with at most one pair per path.                                   *)
(***************************************************************************)
UpperToLower ==
    "A" :> "a" @@ "B" :> "b" @@ "C" :> "c" @@ "D" :> "d" @@ "E" :> "e" @@ "F" :> "f" @@
    "G" :> "g" @@ "H" :> "h" @@ "I" :> "i" @@ "J" :> "j" @@ "K" :> "k" @@ "L" :> "l" @@
    "M" :> "m" @@ "N" :> "n" @@ "O" :> "o" @@ "P" :> "p" @@ "Q" :> "q" @@ "R" :> "r" @@
    "S" :> "s" @@ "T" :> "t" @@ "U" :> "u" @@ "V" :> "v" @@ "W" :> "w" @@ "X" :> "x" @@
    "Y" :> "y" @@ "Z" :> "z"

\* str::to_lowercase on the letters of the alphabet.
to_lowercase(str) ==
    [i \in 1 .. Len(str) |->
        IF str[i] \in DOMAIN UpperToLower THEN UpperToLower[str[i]] ELSE str[i]]

image_format_from_extension(extension) ==
    LET e == to_lowercase(extension)
    IN  CASE e = <<"b", "m", "p">> -> Some("BMP")
         [] e = <<"g", "i", "f">> -> Some("GIF")
         [] e = <<"h", "d", "r">> -> Some("HDR")
         [] e = <<"j", "p", "e", "g">> -> Some("JPEG")
         [] e = <<"p", "n", "g">> -> Some("PNG")
         [] e = <<"t", "g", "a">> -> Some("TGA")
         [] e = <<"t", "i", "f", "f">> -> Some("TIFF")
         [] e = <<"w", "e", "b", "p">> -> Some("WEBP")
         [] OTHER -> None

\* The largest index of str holding character c, 0 when there is none.
last_index_of(str, c) ==
    LET I == { i \in 1 .. Len(str) : str[i] = c }
    IN  IF I = {} THEN 0 ELSE CHOOSE i \in I : \A j \in I : j <= i

\* Path::file_name: the final component of the path.
file_name(path) ==
    LET name == SubSeq(path, last_index_of(path, "/") + 1, Len(path))
    IN  IF name = <<>> \/ name = <<".", ".">> THEN None ELSE Some(name)

\* Path::extension: the part of the file name after its last dot; None when
\* the name has no dot or only a leading one.
extension(path) ==
    LET f == file_name(path)
    IN  IF f = None THEN None
        ELSE LET dot == last_index_of(f[1], ".")
             IN  IF dot <= 1 THEN None
                 ELSE Some(SubSeq(f[1], dot + 1, Len(f[1])))

\* The content of a file: written by the encoder ("image"), created and still
\* empty ("empty"), or there before the program ran ("old").
FileContent(state, fmt, image) == [state |-> state, format |-> fmt, image |-> image]

\* File::create: the file at path exists and is empty.
file_create(fsys, path) ==
    { e \in fsys : e[1] # path } \cup { <<path, FileContent("empty", "", None)>> }

\* The encoder has written the image to the file at path.
file_write(fsys, path, fmt, image) ==
    { e \in fsys : e[1] # path } \cup { <<path, FileContent("image", fmt, image)>> }

\* save creating the file before it looks at the format.
save_create_first(self, path, format, fsys, io) ==
    LET name == unwrap_or(IF format # None THEN format ELSE extension(path), <<>>)
        fmt  == image_format_from_extension(name)
    IN  IF io = "create_fails" THEN [res |-> Err("IOError"), fs |-> fsys]
        ELSE IF fmt = None THEN [res |-> Err("ValueError"), fs |-> file_create(fsys, path)]
        ELSE IF io = "encode_fails"
             THEN [res |-> Err(FromImageError("encode")), fs |-> file_create(fsys, path)]
        ELSE [res |-> Ok(None), fs |-> file_write(fsys, path, fmt[1], self)]

\* io is what the operating system and the encoder do: "ok", "create_fails"
\* (File::create returns an error) or "encode_fails" (image.save returns one).
save(self, path, format, fsys, io) ==
    LET name == unwrap_or(IF format # None THEN format ELSE extension(path), <<>>)
        fmt  == image_format_from_extension(name)
    IN  IF fmt # None
        THEN IF io = "create_fails" THEN [res |-> Err("IOError"), fs |-> fsys]
             ELSE IF io = "encode_fails"
                  THEN [res |-> Err(FromImageError("encode")), fs |-> file_create(fsys, path)]
             ELSE [res |-> Ok(None), fs |-> file_write(fsys, path, fmt[1], self)]
        ELSE [res |-> Err("ValueError"), fs |-> fsys]

(***************************************************************************)
(* Inputs of the calls.                                                    *)
(***************************************************************************)
Colors == { <<0, 0, 0>>, <<255, 0, 0>>, <<250, 0, 0>> }

Tolerances == { None } \cup { Some(t) : t \in { 0, 1, 2, 100, 150, 0 - 50 } }

RectArgs ==
    { None, Some(<< <<MaxW + 1, MaxH + 1>>, <<1, 1>> >>) }
    \cup { Some(<< <<x, y>>, sz >>) :
            x \in (0 - 1) .. 1, y \in 0 .. 1,
            sz \in { <<1, 1>>, <<MaxW, 1>>, <<MaxW, MaxH>> } }

StartArgs == { None } \cup { Some(p) : p \in { <<0, 0>>, <<1, 0>>, <<0, 1>>, <<MaxW, MaxH>> } }

ColorArgs ==
    [color : Colors, tolerance : Tolerances, rect : RectArgs, start_point : StartArgs]

(***************************************************************************)
(* State: the bitmap object the methods are called on, a second bitmap     *)
(* object passed as needle, the files on disk, the arguments the caller    *)
(* passes, and the last call with its result.                              *)
(***************************************************************************)
NoCall == [op |-> "new", res |-> Ok(None)]

NoFiles == {}

InitColor ==
    /\ bitmap \in Bitmaps
    /\ needle = bitmap
    /\ fs = NoFiles
    /\ args \in ColorArgs
    /\ last = NoCall

FindColor ==
    /\ last' = [op |-> "find_color",
                res |-> find_color(bitmap, args.color, args.tolerance,
                                   args.rect, args.start_point)]
    /\ UNCHANGED <<bitmap, needle, fs, args>>

FindEveryColor ==
    /\ last' = [op |-> "find_every_color",
                res |-> find_every_color(bitmap, args.color, args.tolerance,
                                         args.rect, args.start_point)]
    /\ UNCHANGED <<bitmap, needle, fs, args>>

CountOfColor ==
    /\ last' = [op |-> "count_of_color",
                res |-> count_of_color(bitmap, args.color, args.tolerance,
                                       args.rect, args.start_point)]
    /\ UNCHANGED <<bitmap, needle, fs, args>>

NextColor == FindColor \/ FindEveryColor \/ CountOfColor

SpecColor == InitColor /\ [][NextColor]_vars

(***************************************************************************)
(* Template search: the needle is a small bitmap or the haystack itself.   *)
(***************************************************************************)
Needles(bmp) == { n \in Bitmaps : n.w * n.h <= 2 } \cup { bmp }

NeedleTolerances == { None, Some(0), Some(2), Some(100) }

NeedleRectArgs ==
    { None, Some(<< <<MaxW + 1, MaxH + 1>>, <<1, 1>> >>),
      Some(<< <<0, 1>>, <<MaxW, MaxH>> >>) }
    \cup { Some(<< <<x, 0>>, sz >>) :
            x \in (0 - 1) .. 1, sz \in { <<1, 1>>, <<MaxW, 1>>, <<MaxW, MaxH>> } }

NeedleStartArgs == { None } \cup { Some(p) : p \in { <<1, 0>>, <<0, 1>>, <<MaxW, MaxH>> } }

BitmapArgs ==
    [tolerance : NeedleTolerances, rect : NeedleRectArgs, start_point : NeedleStartArgs]

InitBitmap ==
    /\ bitmap \in Bitmaps
    /\ needle \in Needles(bitmap)
    /\ fs = NoFiles
    /\ args \in BitmapArgs
    /\ last = NoCall

FindBitmap ==
    /\ last' = [op |-> "find_bitmap",
                res |-> find_bitmap(bitmap, needle, args.tolerance,
                                    args.rect, args.start_point)]
    /\ UNCHANGED <<bitmap, needle, fs, args>>

FindEveryBitmap ==
    /\ last' = [op |-> "find_every_bitmap",
                res |-> find_every_bitmap(bitmap, needle, args.tolerance,
                                          args.rect, args.start_point)]
    /\ UNCHANGED <<bitmap, needle, fs, args>>

CountOfBitmap ==
    /\ last' = [op |-> "count_of_bitmap",
                res |-> count_of_bitmap(bitmap, needle, args.tolerance,
                                        args.rect, args.start_point)]
    /\ UNCHANGED <<bitmap, needle, fs, args>>

NextBitmap == FindBitmap \/ FindEveryBitmap \/ CountOfBitmap

SpecBitmap == InitBitmap /\ [][NextBitmap]_vars

(***************************************************************************)
(* All six searches on the same arguments.                                 *)
(***************************************************************************)
SearchRectArgs ==
    { None, Some(<< <<MaxW + 1, MaxH + 1>>, <<1, 1>> >>),
      Some(<< <<0, 0>>, <<1, 1>> >>), Some(<< <<0 - 1, 0>>, <<MaxW, MaxH>> >>) }

SearchStartArgs == { None, Some(<<0, 1>>) }

SearchArgs ==
    [color : { <<0, 0, 0>>, <<250, 0, 0>> }, tolerance : Tolerances,
     rect : SearchRectArgs, start_point : SearchStartArgs]

InitSearch ==
    /\ bitmap \in Bitmaps
    /\ needle \in Needles(bitmap)
    /\ fs = NoFiles
    /\ args \in SearchArgs
    /\ last = NoCall

NextSearch ==
    \/ FindColor
    \/ FindEveryColor
    \/ CountOfColor
    \/ FindBitmap
    \/ FindEveryBitmap
    \/ CountOfBitmap

SpecSearch == InitSearch /\ [][NextSearch]_vars

(***************************************************************************)
(* Bounds queries, pixel access and cropping: a call takes a point or a    *)
(* rect.                                                                   *)
(***************************************************************************)
PointArgs == [x : (0 - 1) .. (MaxW + 1), y : (0 - 1) .. (MaxH + 1)]

CropArgs ==
    [rect : { << <<x, y>>, <<w, h>> >> :
                x \in (0 - 1) .. 1, y \in (0 - 1) .. 1,
                w \in (0 - 1) .. (MaxW + 1), h \in 0 .. (MaxH + 1) }]

InitBounds ==
    /\ bitmap \in Bitmaps
    /\ needle = bitmap
    /\ fs = NoFiles
    /\ args \in PointArgs \cup CropArgs
    /\ last = NoCall

PointInBounds ==
    /\ args \in PointArgs
    /\ last' = [op |-> "point_in_bounds", res |-> point_in_bounds(bitmap, args.x, args.y)]
    /\ UNCHANGED <<bitmap, needle, fs, args>>

RectInBounds ==
    /\ args \in CropArgs
    /\ last' = [op |-> "rect_in_bounds", res |-> rect_in_bounds(bitmap, args.rect)]
    /\ UNCHANGED <<bitmap, needle, fs, args>>

GetColor ==
    /\ args \in PointArgs
    /\ last' = [op |-> "get_color", res |-> get_color(bitmap, args.x, args.y)]
    /\ UNCHANGED <<bitmap, needle, fs, args>>

Cropped ==
    /\ args \in CropArgs
    /\ last' = [op |-> "cropped", res |-> cropped(bitmap, args.rect).res]
    /\ bitmap' = cropped(bitmap, args.rect).self
    /\ UNCHANGED <<needle, fs, args>>

NextBounds == PointInBounds \/ RectInBounds \/ GetColor \/ Cropped

SpecBounds == InitBounds /\ [][NextBounds]_vars

(***************************************************************************)
(* save: paths and formats as the caller writes them.                      *)
(***************************************************************************)
SavePaths ==
    { <<"a", ".", "P", "N", "G">>,
      <<"a">>,
      <<".", "p", "n", "g">>,
      <<"a", ".", "j", "p", "g">>,
      <<"d", ".", "g", "i", "f", "/", "b">>,
      <<"a", ".", "b", ".", "t", "g", "a">>,
      <<"a", ".">>,
      <<"x", ".", "J", "p", "e", "g">> }

SaveFormats ==
    { None } \cup { Some(f) : f \in
    { <<"p", "n", "g">>,
      <<"B", "M", "P">>,
      <<"j", "p", "g">>,
      <<>>,
      <<"J", "p", "e", "g">>,
      <<"t", "i", "f", "f">>,
      <<"h", "d", "r">>,
      <<"g", "i", "f">>,
      <<"t", "g", "a">>,
      <<"W", "e", "b", "P">> } }

SaveArgs == [path : SavePaths, format : SaveFormats]

SaveOutcomes == { "ok", "create_fails", "encode_fails" }

InitSave ==
    /\ bitmap \in Bitmaps
    /\ needle = bitmap
    /\ fs \in { NoFiles, { <<p, FileContent("old", "", None)>> : p \in SavePaths } }
    /\ args \in SaveArgs
    /\ last = NoCall

Save ==
    \E io \in SaveOutcomes :
        /\ last' = [op |-> "save", res |-> save(bitmap, args.path, args.format, fs, io).res]
        /\ fs' = save(bitmap, args.path, args.format, fs, io).fs
        /\ UNCHANGED <<bitmap, needle, args>>

NextSave == Save

SpecSave == InitSave /\ [][NextSave]_vars

(***************************************************************************)
(* Properties.  The scanned positions and the match relation are stated    *)
(* here on the arguments as the caller passes them, independently of the   *)
(* operators above.                                                        *)
(***************************************************************************)
RectOf(bmp, rect) == IF rect = None THEN << <<0, 0>>, <<bmp.w, bmp.h>> >> ELSE rect[1]

InRect(p, r) ==
    /\ r[1][1] <= p[1] /\ p[1] < r[1][1] + r[2][1]
    /\ r[1][2] <= p[2] /\ p[2] < r[1][2] + r[2][2]

ScanLE(p, q) == p[2] < q[2] \/ (p[2] = q[2] /\ p[1] <= q[1])

\* The positions a search visits: inside the bounds and the rect, not before start_point.
Scanned(bmp, rect, start_point) ==
    { p \in DOMAIN bmp.px :
        /\ InRect(p, RectOf(bmp, rect))
        /\ start_point # None => ScanLE(start_point[1], p) }

\* Every channel of a and b differs by at most round(t * 255), t in hundredths.
Within(a, b, tolerance) ==
    LET t == IF tolerance = None THEN 0 ELSE tolerance[1]
    IN  \A i \in 1 .. 3 : 100 * Abs(a[i] - b[i]) <= 255 * t + 50

ColorMatchSet(bmp, a) ==
    { p \in Scanned(bmp, a.rect, a.start_point) : Within(bmp.px[p], a.color, a.tolerance) }

SeqRange(q) == { q[i] : i \in 1 .. Len(q) }

\* C1: count_of_color equals the number of points find_every_color returns for
\* the same bitmap and the same color, tolerance, rect and start_point.
T_C1 ==
    /\ last.op = "count_of_color" =>
          LET every == find_every_color(bitmap, args.color, args.tolerance,
                                        args.rect, args.start_point)
          IN  every.kind = "Ok" /\ last.res = Ok(Len(every.val))
    /\ last.op = "find_every_color" =>
          /\ last.res.kind = "Ok"
          /\ count_of_color(bitmap, args.color, args.tolerance,
                            args.rect, args.start_point) = Ok(Len(last.res.val))

W_C1 ==
    /\ last.op = "count_of_color"
    /\ last.res.kind = "Ok"
    /\ last.res.val >= 2
    /\ args.rect # None
    /\ args.start_point # None
    /\ Cardinality(ColorMatchSet(bitmap, [args EXCEPT !.start_point = None])) > last.res.val

\* C3: find_color returns the scan-order-first scanned position whose pixel
\* matches, None exactly when no scanned position matches, and its result is
\* the first element of find_every_color for the same arguments.
T_C3 ==
    last.op = "find_color" =>
        LET M     == ColorMatchSet(bitmap, args)
            every == find_every_color(bitmap, args.color, args.tolerance,
                                      args.rect, args.start_point)
        IN  /\ last.res.kind = "Ok"
            /\ (last.res.val = None) <=> (M = {})
            /\ last.res.val # None =>
                  /\ last.res.val[1] \in M
                  /\ \A q \in M : ScanLE(last.res.val[1], q)
            /\ every.kind = "Ok"
            /\ last.res.val = IF Len(every.val) = 0 THEN None ELSE Some(every.val[1])

W_C3 ==
    /\ last.op = "find_color"
    /\ last.res.kind = "Ok"
    /\ last.res.val # None
    /\ args.rect # None
    /\ \E q \in Scanned(bitmap, args.rect, args.start_point) :
          q # last.res.val[1] /\ ScanLE(q, last.res.val[1])
    /\ Cardinality(ColorMatchSet(bitmap, args)) >= 2

InUnit(tolerance) == tolerance = None \/ (0 <= tolerance[1] /\ tolerance[1] <= 100)

Rgb(px) == <<px[1], px[2], px[3]>>

\* C5: for a tolerance t in [0, 1] (absent: 0) a pixel matches iff every RGB
\* channel differs by at most round(t * 255): find_color and find_every_color
\* return matching positions only and miss none; with t = 0 the pixels found
\* have exactly the color asked for; with t = 1 find_color finds a point in
\* every non-empty region.
T_C5 ==
    (last.op \in { "find_color", "find_every_color" } /\ InUnit(args.tolerance)) =>
        LET S     == Scanned(bitmap, args.rect, args.start_point)
            M     == ColorMatchSet(bitmap, args)
            \* An Option is a sequence of at most one point.
            found == SeqRange(last.res.val)
        IN  /\ last.res.kind = "Ok"
            /\ found \subseteq M
            /\ (found = {}) <=> (M = {})
            /\ last.op = "find_every_color" => found = M
            /\ args.tolerance \in { None, Some(0) } =>
                  M = { p \in S : Rgb(bitmap.px[p]) = args.color }
            /\ args.tolerance = Some(100) => M = S

W_C5 ==
    /\ last.op = "find_color"
    /\ args.tolerance = Some(2)
    /\ last.res.kind = "Ok"
    /\ last.res.val # None
    /\ Rgb(bitmap.px[last.res.val[1]]) # args.color
    /\ ColorMatchSet(bitmap, [args EXCEPT !.tolerance = Some(1)]) = {}

\* The needle lies inside the haystack bounds at p and every needle pixel matches.
NeedleAt(bmp, ndl, tolerance, p) ==
    \A d \in DOMAIN ndl.px :
        /\ <<p[1] + d[1], p[2] + d[2]>> \in DOMAIN bmp.px
        /\ Within(bmp.px[<<p[1] + d[1], p[2] + d[2]>>], ndl.px[d], tolerance)

\* The part of the rect inside the bounds is narrower or lower than the needle.
NeedleLarger(bmp, ndl, rect) ==
    LET R == { p \in DOMAIN bmp.px : InRect(p, RectOf(bmp, rect)) }
    IN  \/ Cardinality({ p[1] : p \in R }) < ndl.w
        \/ Cardinality({ p[2] : p \in R }) < ndl.h

FitSet(bmp, ndl, a) ==
    { p \in Scanned(bmp, a.rect, a.start_point) : NeedleAt(bmp, ndl, a.tolerance, p) }

BitmapMatchSet(bmp, ndl, a) ==
    IF NeedleLarger(bmp, ndl, a.rect) THEN {} ELSE FitSet(bmp, ndl, a)

\* C2: count_of_bitmap equals the number of points find_every_bitmap returns for
\* the same haystack, needle, tolerance, rect and start_point.
T_C2 ==
    /\ last.op = "count_of_bitmap" =>
          LET every == find_every_bitmap(bitmap, needle, args.tolerance,
                                         args.rect, args.start_point)
          IN  every.kind = "Ok" /\ last.res = Ok(Len(every.val))
    /\ last.op = "find_every_bitmap" =>
          /\ last.res.kind = "Ok"
          /\ count_of_bitmap(bitmap, needle, args.tolerance,
                             args.rect, args.start_point) = Ok(Len(last.res.val))

W_C2 ==
    /\ last.op = "count_of_bitmap"
    /\ last.res.kind = "Ok"
    /\ last.res.val >= 2
    /\ needle.w * needle.h >= 2
    /\ args.tolerance = Some(2)
    /\ Cardinality(BitmapMatchSet(bitmap, needle, [args EXCEPT !.tolerance = None])) < last.res.val

SearchOps ==
    { "find_color", "find_every_color", "count_of_color",
      "find_bitmap", "find_every_bitmap", "count_of_bitmap" }

OutOfRange(tolerance) == tolerance # None /\ (tolerance[1] < 0 \/ tolerance[1] > 100)

NoOverlap(bmp, rect) == { p \in DOMAIN bmp.px : InRect(p, RectOf(bmp, rect)) } = {}

\* C10: when the rect does not overlap the bounds, or (template search) the
\* needle is larger than the effective region, the search succeeds with an
\* empty result: None, the empty list or the count 0.
T_C10 ==
    /\ (last.op \in SearchOps /\ NoOverlap(bitmap, args.rect)) =>
          last.res = (IF last.op \in { "count_of_color", "count_of_bitmap" }
                      THEN Ok(0) ELSE Ok(<<>>))
    /\ ( /\ last.op \in { "find_bitmap", "find_every_bitmap", "count_of_bitmap" }
         /\ NeedleLarger(bitmap, needle, args.rect) ) =>
          last.res = (IF last.op = "count_of_bitmap" THEN Ok(0) ELSE Ok(<<>>))

W_C10 ==
    /\ last.op = "find_every_color"
    /\ args.rect # None
    /\ NoOverlap(bitmap, args.rect)
    /\ args.tolerance = Some(100)
    /\ last.res = Ok(<<>>)

\* The rect, as the caller passes it, has a non-negative size and lies inside the bounds.
Contained(bmp, r) ==
    /\ r[2][1] >= 0 /\ r[2][2] >= 0
    /\ 0 <= r[1][1] /\ r[1][1] + r[2][1] <= bmp.w
    /\ 0 <= r[1][2] /\ r[1][2] + r[2][2] <= bmp.h

C6State ==
    /\ last.op = "get_color" =>
          /\ (last.res.kind = "Err") <=> (point_in_bounds(bitmap, args.x, args.y) = Ok(FALSE))
          /\ (last.res.kind = "Err") <=>
                ~(0 <= args.x /\ args.x < bitmap.w /\ 0 <= args.y /\ args.y < bitmap.h)
          /\ last.res.kind = "Err" => last.res.exc = "ValueError"
          /\ last.res.kind = "Ok" => last.res.val = Rgb(bitmap.px[<<args.x, args.y>>])
          /\ (args.x = bitmap.w /\ args.y = bitmap.h) => last.res.kind = "Err"
    /\ (last.op = "cropped" /\ ~Contained(bitmap, args.rect)) =>
          last.res = Err("ValueError")

C6Step ==
    (last'.op \in { "get_color", "cropped" } /\ last'.res.kind = "Err") => bitmap' = bitmap

\* C6: get_color fails exactly when point_in_bounds is false, that is outside
\* 0 <= x < width, 0 <= y < height (so (width, height) fails), and otherwise
\* returns the pixel's RGB triple without alpha; cropped fails whenever rect is
\* not contained in the bounds; a failing call leaves the bitmap unchanged.
T_C6 == [](C6State) /\ [][C6Step]_vars

W_C6 ==
    /\ last.op = "get_color"
    /\ args.x = bitmap.w
    /\ args.y = bitmap.h
    /\ bitmap.w # bitmap.h
    /\ last.res = Err("ValueError")

\* C7: cropped with rect equal to the bounds succeeds and returns a bitmap of
\* the same size with the same pixels; every successful crop holds, at local
\* (dx, dy), the source pixel at rect.origin + (dx, dy), so local (0, 0) is the
\* source pixel at rect.origin.
T_C7 ==
    last.op = "cropped" =>
        /\ args.rect = RectOf(bitmap, None) =>
              /\ last.res.kind = "Ok"
              /\ last.res.val.w = bitmap.w
              /\ last.res.val.h = bitmap.h
              /\ last.res.val.px = bitmap.px
        /\ last.res.kind = "Ok" =>
              /\ last.res.val.w = args.rect[2][1]
              /\ last.res.val.h = args.rect[2][2]
              /\ DOMAIN last.res.val.px = (0 .. args.rect[2][1] - 1) \X (0 .. args.rect[2][2] - 1)
              /\ \A d \in DOMAIN last.res.val.px :
                    last.res.val.px[d] =
                        bitmap.px[<<args.rect[1][1] + d[1], args.rect[1][2] + d[2]>>]

W_C7 ==
    /\ last.op = "cropped"
    /\ args.rect = RectOf(bitmap, None)
    /\ bitmap.w # bitmap.h
    /\ last.res.kind = "Ok"
    /\ last.res.val.px = bitmap.px
    /\ \E p, q \in DOMAIN bitmap.px : bitmap.px[p] # bitmap.px[q]

SupportedNames ==
    { <<"b", "m", "p">>,
      <<"g", "i", "f">>,
      <<"h", "d", "r">>,
      <<"j", "p", "e", "g">>,
      <<"p", "n", "g">>,
      <<"t", "g", "a">>,
      <<"t", "i", "f", "f">>,
      <<"w", "e", "b", "p">> }

\* The characters after the last dot of the path's final component, when that
\* component has a dot that is not its first character.
HasExtension(path, i) ==
    /\ i \in 2 .. Len(path)
    /\ path[i] = "."
    /\ path[i - 1] # "/"
    /\ \A j \in (i + 1) .. Len(path) : path[j] \notin { ".", "/" }

ResolvedName(a) ==
    IF a.format # None THEN a.format[1]
    ELSE IF \E i \in 1 .. Len(a.path) : HasExtension(a.path, i)
         THEN LET i == CHOOSE k \in 1 .. Len(a.path) : HasExtension(a.path, k)
              IN  SubSeq(a.path, i + 1, Len(a.path))
         ELSE <<>>

Recognized(a) ==
    \E n \in SupportedNames :
        /\ Len(n) = Len(ResolvedName(a))
        /\ \A i \in 1 .. Len(n) :
              \/ ResolvedName(a)[i] = n[i]
              \/ (ResolvedName(a)[i] \in DOMAIN UpperToLower
                    /\ UpperToLower[ResolvedName(a)[i]] = n[i])

FileAt(fsys, path) == { e[2] : e \in { x \in fsys : x[1] = path } }

C9State ==
    last.op = "save" =>
        /\ ~Recognized(args) => last.res = Err("ValueError")
        /\ Recognized(args) =>
              \/ last.res.kind = "Err"
              \/ /\ last.res = Ok(None)
                 /\ \E c \in FileAt(fs, args.path) :
                       /\ c.state = "image"
                       /\ c.image = bitmap
                       /\ \E n \in SupportedNames :
                             /\ to_lowercase(ResolvedName(args)) = n
                             /\ image_format_from_extension(n) = Some(c.format)

C9Step == (last'.op = "save" /\ ~Recognized(args)) => fs' = fs

====
